---- MODULE Spec2Model ----
(***************************************************************************)
(* Hybrid search of founder-rag: backend/main.py `search` (POST /search),  *)
(* the module-level BM25 index it reads, and the result handling of        *)
(* frontend/frontend_app.py.                                               *)
(*                                                                         *)
(* Rows of the data frame are numbered 1..NumDocs (Python: 0..n-1); the    *)
(* 'id' column of row d is d, a unique string that scripts/ingest.py also  *)
(* stored as the point id and payload['id'] in Qdrant (str() of a string   *)
(* is that string).  BM25Okapi.get_scores is library code: its result for  *)
(* the non-empty query is any vector of scores, fixed at startup.  Ranks   *)
(* are kept 0-based as enumerate() gives them.                             *)
(*                                                                         *)
(* Fusion scores are Python floats 1/(i+1) and 0.5/(j+1); they are kept   *)
(* here as exact multiples of 1/Scale.  For list lengths up to 5 (the      *)
(* default top_k) the float sums compare exactly as the exact sums do, so  *)
(* order and ties are those of the code.                                   *)
(***************************************************************************)
EXTENDS Integers, Sequences, FiniteSets

\* Bounds of the model.
NumDocs == 3
MaxTopK == 3
MaxScore == 2

Docs == 1..NumDocs
Scores == (0 - 1)..MaxScore
TopKs == (0 - 1)..MaxTopK
Queries == {"", "fintech"}

VARIABLES
    workers,                \* threadpool threads that run `search`
    bm25_scores,            \* bm25.get_scores(tokens of the non-empty query)
    argsort,                \* what ndarray.argsort() returns for bm25_scores
    pc,                     \* position of each thread inside `search`
    query,                  \* search_query.query
    top_k,                  \* search_query.top_k
    vector_search_results,  \* ids of the payloads Qdrant returned, best first
    bm25_results,           \* list of {"score", "payload"} built at lines 87-93
    ranked_results,         \* the accumulator dict, in insertion order
    upstream,               \* outcome of the last call made inside the try block
    response,               \* what the thread answered
    calls                   \* collaborators and stages the request has entered

vars == <<workers, bm25_scores, argsort, pc, query, top_k,
          vector_search_results, bm25_results, ranked_results, upstream,
          response, calls>>

----------------------------------------------------------------------------
\* Python list helpers.

Max(a, b) == IF a >= b THEN a ELSE b
Min(a, b) == IF a <= b THEN a ELSE b

\* Start or stop index of a slice, as Python normalises it for a list of length n.
SliceIndex(i, n) == IF i < 0 THEN Max(i + n, 0) ELSE Min(i, n)

\* s[start:] for a Python index start (0-based, negative counts from the end).
SliceFrom(s, start) ==
    LET b == SliceIndex(start, Len(s))
    IN  [n \in 1..(Len(s) - b) |-> s[b + n]]

\* s[:stop]
SliceTo(s, stop) ==
    LET e == SliceIndex(stop, Len(s))
    IN  [n \in 1..e |-> s[n]]

\* s[::-1]
Reversed(s) == [n \in 1..Len(s) |-> s[Len(s) + 1 - n]]

Range(s) == {s[n] : n \in 1..Len(s)}

\* Lists of distinct rows, at most n long.
DistinctSeqs(n) ==
    UNION {{s \in [1..m -> Docs] : \A a, b \in 1..m : a # b => s[a] # s[b]} :
           m \in 0..Min(Max(n, 0), NumDocs)}

Orderings(S) == {s \in [1..Cardinality(S) -> S] : Range(s) = S}

RECURSIVE Factorial(_)
Factorial(n) == IF n <= 1 THEN 1 ELSE n * Factorial(n - 1)

\* One unit of score is 1/Scale; every 1/(i+1) and 0.5/(j+1) is a whole number of units.
Scale == 2 * Factorial(Max(NumDocs, MaxTopK))

----------------------------------------------------------------------------
\* Payloads and responses.

QdrantPayload(d) == [id |-> d, origin |-> "qdrant"]
RowPayload(d) == [id |-> d, origin |-> "df"]

NoResponse == [status |-> 0, body |-> "none", results |-> <<>>]
HTTPException(code) == [status |-> code, body |-> "detail", results |-> <<>>]

----------------------------------------------------------------------------
\* Step 2 of search: keyword search.

\* The orders ndarray.argsort() may return: ascending by score.  The default
\* kind is not a stable sort, so the order inside a group of equal scores is
\* whatever the build's sort produces; it is one fixed order per build.
ArgsortOutcomes(scores) ==
    {p \in Orderings(Docs) :
        \A a, b \in 1..NumDocs : a < b => scores[p[a]] <= scores[p[b]]}

\* bm25_scores.argsort()[-top_k:][::-1]
TopNIndices(order, k) == Reversed(SliceFrom(order, 0 - k))

\* The loop of lines 87-93: keep the rows whose score is positive.
\* Variant: the test written as >= 0, which lets rows without overlap in.
Bm25Results_nonneg(scores, order, k) ==
    LET kept == SelectSeq(TopNIndices(order, k), LAMBDA idx : scores[idx] >= 0)
    IN  [n \in 1..Len(kept) |-> [score |-> scores[kept[n]], payload |-> RowPayload(kept[n])]]

Bm25Results(scores, order, k) ==
    LET kept == SelectSeq(TopNIndices(order, k), LAMBDA idx : scores[idx] > 0)
    IN  [n \in 1..Len(kept) |-> [score |-> scores[kept[n]], payload |-> RowPayload(kept[n])]]

----------------------------------------------------------------------------
\* Step 3 of search: rank fusion.

\* 1 / (i + 1)
VectorRankScore(i) == Scale \div (i + 1)

\* 0.5 / (i + 1)
\* Variant: BM25 ranks weighted like vector ranks.
Bm25RankScore_full(i) == Scale \div (i + 1)

Bm25RankScore(i) == Scale \div (2 * (i + 1))

Position(acc, doc_id) ==
    IF \E n \in 1..Len(acc) : acc[n].id = doc_id
    THEN CHOOSE n \in 1..Len(acc) : acc[n].id = doc_id
    ELSE 0

\* if doc_id not in ranked_results: ranked_results[doc_id] = {score: 0, payload}
\* ranked_results[doc_id]["score"] += rank_score
\* Variant: an entry is created for every hit, without the membership test.
AddRankScore_nocheck(acc, payload, rank_score) ==
    Append(acc, [id |-> payload.id, score |-> 0 + rank_score, payload |-> payload])

AddRankScore(acc, payload, rank_score) ==
    LET at == Position(acc, payload.id)
    IN  IF at = 0
        THEN Append(acc, [id |-> payload.id, score |-> 0 + rank_score, payload |-> payload])
        ELSE [acc EXCEPT ![at].score = @ + rank_score]

\* for i, result in enumerate(vector_search_results), from rank i on
RECURSIVE FuseVectorResults(_, _, _)
FuseVectorResults(acc, results, i) ==
    IF i >= Len(results) THEN acc
    ELSE FuseVectorResults(
            AddRankScore(acc, QdrantPayload(results[i + 1]), VectorRankScore(i)),
            results, i + 1)

\* for i, result in enumerate(bm25_results), from rank i on
RECURSIVE FuseBm25Results(_, _, _)
FuseBm25Results(acc, results, i) ==
    IF i >= Len(results) THEN acc
    ELSE FuseBm25Results(
            AddRankScore(acc, results[i + 1].payload, Bm25RankScore(i)),
            results, i + 1)

\* Insert item into a list sorted by descending score, after the items whose
\* score is at least its own: sorted(..., reverse=True) keeps equal items in
\* their original order.
\* Variant: an item goes before the items of equal score.
RECURSIVE InsertByScore_unstable(_, _)
InsertByScore_unstable(sorted, item) ==
    IF sorted = <<>> THEN <<item>>
    ELSE IF Head(sorted).score > item.score
         THEN <<Head(sorted)>> \o InsertByScore_unstable(Tail(sorted), item)
         ELSE <<item>> \o sorted

RECURSIVE InsertByScore(_, _)
InsertByScore(sorted, item) ==
    IF sorted = <<>> THEN <<item>>
    ELSE IF Head(sorted).score >= item.score
         THEN <<Head(sorted)>> \o InsertByScore(Tail(sorted), item)
         ELSE <<item>> \o sorted

\* sorted(ranked_results.values(), key=score, reverse=True) of the first n items
RECURSIVE SortedResults(_, _)
SortedResults(acc, n) ==
    IF n = 0 THEN <<>>
    ELSE InsertByScore(SortedResults(acc, n - 1), acc[n])

\* [item["payload"] for item in sorted_results[:top_k]]
\* Variant: no truncation.
FinalResults_all(sorted_results, k) ==
    [n \in 1..Len(sorted_results) |-> sorted_results[n].payload]

FinalResults(sorted_results, k) ==
    LET kept == SliceTo(sorted_results, k)
    IN  [n \in 1..Len(kept) |-> kept[n].payload]

\* Lines 119-122.
\* Variant: the results key is returned also for an empty list.
SearchResponse_always(final_results) ==
    [status |-> 200, body |-> "results", results |-> final_results]

SearchResponse(final_results) ==
    IF final_results = <<>>
    THEN [status |-> 200, body |-> "message", results |-> <<>>]
    ELSE [status |-> 200, body |-> "results", results |-> final_results]

\* frontend_app.py: what the page shows for a response.
FrontendShows(resp) ==
    IF resp.status >= 400 THEN "error"
    ELSE IF resp.body = "results" /\ resp.results # <<>> THEN "success"
    ELSE "info"

----------------------------------------------------------------------------
\* The service.  The data frame and the BM25 index are built once when the
\* module is imported; each request runs `search` on a threadpool thread.

Startup(threads, corpora) ==
    /\ workers = threads
    /\ bm25_scores \in corpora
    /\ argsort \in ArgsortOutcomes(bm25_scores)
    /\ pc = [r \in workers |-> "idle"]
    /\ query = [r \in workers |-> ""]
    /\ top_k = [r \in workers |-> 0]
    /\ vector_search_results = [r \in workers |-> <<>>]
    /\ bm25_results = [r \in workers |-> <<>>]
    /\ ranked_results = [r \in workers |-> <<>>]
    /\ upstream = [r \in workers |-> "none"]
    /\ response = [r \in workers |-> NoResponse]
    /\ calls = [r \in workers |-> {}]

\* Any corpus, one request at a time.
Init == Startup({1}, [Docs -> Scores])

\* The corpus for two threads: row 1 shares no term with the query, rows 2
\* and 3 score the same, later rows score more.
TwoThreadCorpora ==
    {[d \in Docs |-> IF d = 1 THEN 0 ELSE Min(Max(d - 2, 1), MaxScore)]}

InitConcurrent == Startup({1, 2}, TwoThreadCorpora)

index == <<workers, bm25_scores, argsort>>

\* Lines 56-62: the request body is parsed into SearchQuery (query: str,
\* top_k: int), then an empty query is refused.
Receive(r) ==
    /\ pc[r] = "idle"
    /\ \E q \in Queries, k \in TopKs :
        /\ query' = [query EXCEPT ![r] = q]
        /\ top_k' = [top_k EXCEPT ![r] = k]
        /\ IF q = ""
           THEN /\ response' = [response EXCEPT ![r] = HTTPException(400)]
                /\ pc' = [pc EXCEPT ![r] = "done"]
           ELSE /\ response' = response
                /\ pc' = [pc EXCEPT ![r] = "embed"]
    /\ UNCHANGED <<index, vector_search_results, bm25_results, ranked_results,
                   upstream, calls>>

\* Lines 78-79: except Exception -> HTTPException(500).
\* Variant: the failure is swallowed and the request goes on with lexical results only.
VectorSearchFailed_degrade(r) ==
    /\ pc' = [pc EXCEPT ![r] = "bm25"]
    /\ UNCHANGED <<response, vector_search_results>>

VectorSearchFailed(r) ==
    /\ response' = [response EXCEPT ![r] = HTTPException(500)]
    /\ pc' = [pc EXCEPT ![r] = "done"]
    /\ UNCHANGED vector_search_results

\* Lines 66-70: co.embed(...), which returns the embedding or raises.
Embed(r) ==
    /\ pc[r] = "embed"
    /\ calls' = [calls EXCEPT ![r] = @ \cup {"embed"}]
    /\ \/ /\ upstream' = [upstream EXCEPT ![r] = "ok"]
          /\ pc' = [pc EXCEPT ![r] = "vector_search"]
          /\ UNCHANGED <<response, vector_search_results>>
       \/ /\ upstream' = [upstream EXCEPT ![r] = "raised"]
          /\ VectorSearchFailed(r)
    /\ UNCHANGED <<index, query, top_k, bm25_results, ranked_results>>

\* Lines 72-77: qdrant_client.search(limit=top_k), which returns at most
\* top_k distinct points, best first, or raises.
VectorSearch(r) ==
    /\ pc[r] = "vector_search"
    /\ calls' = [calls EXCEPT ![r] = @ \cup {"vector_search"}]
    /\ \/ \E answer \in DistinctSeqs(top_k[r]) :
            /\ upstream' = [upstream EXCEPT ![r] = "ok"]
            /\ vector_search_results' = [vector_search_results EXCEPT ![r] = answer]
            /\ pc' = [pc EXCEPT ![r] = "bm25"]
            /\ UNCHANGED response
       \/ /\ upstream' = [upstream EXCEPT ![r] = "raised"]
          /\ VectorSearchFailed(r)
    /\ UNCHANGED <<index, query, top_k, bm25_results, ranked_results>>

\* Lines 82-93.
Bm25(r) ==
    /\ pc[r] = "bm25"
    /\ calls' = [calls EXCEPT ![r] = @ \cup {"bm25"}]
    /\ bm25_results' = [bm25_results EXCEPT ![r] = Bm25Results(bm25_scores, argsort, top_k[r])]
    /\ pc' = [pc EXCEPT ![r] = "fuse_vector"]
    /\ UNCHANGED <<index, query, top_k, vector_search_results, ranked_results,
                   upstream, response>>

\* Line 97: ranked_results = {}, a dict local to the call.
\* Variant: one module-level dict that another thread may be filling.
NewAccumulator_shared(r) ==
    LET busy == {w \in workers \ {r} : ranked_results[w] # <<>>}
    IN  IF busy = {} THEN <<>> ELSE ranked_results[CHOOSE w \in busy : TRUE]

NewAccumulator(r) == <<>>

\* Lines 97-104.
FuseVector(r) ==
    /\ pc[r] = "fuse_vector"
    /\ calls' = [calls EXCEPT ![r] = @ \cup {"fusion"}]
    /\ ranked_results' = [ranked_results EXCEPT ![r] =
            FuseVectorResults(NewAccumulator(r), vector_search_results[r], 0)]
    /\ pc' = [pc EXCEPT ![r] = "fuse_bm25"]
    /\ UNCHANGED <<index, query, top_k, vector_search_results, bm25_results,
                   upstream, response>>

\* Lines 107-111.
FuseBm25(r) ==
    /\ pc[r] = "fuse_bm25"
    /\ ranked_results' = [ranked_results EXCEPT ![r] =
            FuseBm25Results(ranked_results[r], bm25_results[r], 0)]
    /\ pc' = [pc EXCEPT ![r] = "respond"]
    /\ UNCHANGED <<index, query, top_k, vector_search_results, bm25_results,
                   upstream, response, calls>>

\* Lines 114-122.
Respond(r) ==
    /\ pc[r] = "respond"
    /\ response' = [response EXCEPT ![r] =
            SearchResponse(FinalResults(
                SortedResults(ranked_results[r], Len(ranked_results[r])), top_k[r]))]
    /\ pc' = [pc EXCEPT ![r] = "done"]
    /\ UNCHANGED <<index, query, top_k, vector_search_results, bm25_results,
                   ranked_results, upstream, calls>>

\* The response is sent, the locals of the call die, the thread is free again.
Return(r) ==
    /\ pc[r] = "done"
    /\ pc' = [pc EXCEPT ![r] = "idle"]
    /\ query' = [query EXCEPT ![r] = ""]
    /\ top_k' = [top_k EXCEPT ![r] = 0]
    /\ vector_search_results' = [vector_search_results EXCEPT ![r] = <<>>]
    /\ bm25_results' = [bm25_results EXCEPT ![r] = <<>>]
    /\ ranked_results' = [ranked_results EXCEPT ![r] = <<>>]
    /\ upstream' = [upstream EXCEPT ![r] = "none"]
    /\ response' = [response EXCEPT ![r] = NoResponse]
    /\ calls' = [calls EXCEPT ![r] = {}]
    /\ UNCHANGED index

Next ==
    \/ \E r \in workers : Receive(r)
    \/ \E r \in workers : Embed(r)
    \/ \E r \in workers : VectorSearch(r)
    \/ \E r \in workers : Bm25(r)
    \/ \E r \in workers : FuseVector(r)
    \/ \E r \in workers : FuseBm25(r)
    \/ \E r \in workers : Respond(r)
    \/ \E r \in workers : Return(r)

Spec == Init /\ [][Next]_vars

SpecConcurrent == InitConcurrent /\ [][Next]_vars

----------------------------------------------------------------------------
\* What the properties below speak about.

SemanticIds(r) == vector_search_results[r]
LexicalIds(r) == [n \in 1..Len(bm25_results[r]) |-> bm25_results[r][n].payload.id]
Candidates(r) == Range(SemanticIds(r)) \cup Range(LexicalIds(r))
ResultIds(r) == [n \in 1..Len(response[r].results) |-> response[r].results[n].id]

\* 0-based rank of d in list, or -1.
RankIn(list, d) ==
    IF \E n \in 1..Len(list) : list[n] = d
    THEN (CHOOSE n \in 1..Len(list) : list[n] = d) - 1
    ELSE 0 - 1

\* 1.0/(i+1) for semantic rank i plus 0.5/(j+1) for lexical rank j, in units of 1/Scale.
ExpectedScore(r, d) ==
    LET i == RankIn(SemanticIds(r), d)
        j == RankIn(LexicalIds(r), d)
    IN  (IF i >= 0 THEN Scale \div (i + 1) ELSE 0)
        + (IF j >= 0 THEN (Scale \div 2) \div (j + 1) ELSE 0)

Entries(r, d) == {n \in 1..Len(ranked_results[r]) : ranked_results[r][n].id = d}
ScoreOf(r, d) == ranked_results[r][CHOOSE n \in Entries(r, d) : TRUE].score

\* Position at which d first entered the accumulator: semantic candidates in
\* rank order, then the lexical candidates the semantic list did not hold.
FirstInserted(r, d) ==
    IF RankIn(SemanticIds(r), d) >= 0
    THEN RankIn(SemanticIds(r), d)
    ELSE Len(SemanticIds(r))
         + Cardinality({n \in 1..RankIn(LexicalIds(r), d) :
                            LexicalIds(r)[n] \notin Range(SemanticIds(r))})

Fused(r) == pc[r] \in {"respond", "done"} /\ "fusion" \in calls[r]
Answered(r) == pc[r] = "done" /\ response[r].status = 200

\* C1: a request with an empty query or with top_k <= 0 is rejected with a
\* validation error at the boundary; embedding, vector search, BM25 lookup and
\* fusion are never entered for it.
C1_RejectedAtBoundary ==
    \A r \in workers :
        (pc[r] # "idle" /\ (query[r] = "" \/ top_k[r] <= 0)) =>
            /\ pc[r] = "done"
            /\ response[r].status \in {400, 422}
            /\ calls[r] = {}

\* C2: after fusion every candidate has exactly one accumulator entry whose
\* score is 1.0/(i+1) for its semantic rank i plus 0.5/(j+1) for its lexical
\* rank j, and no other document has an entry; semantic [A, B] with lexical
\* [B, C] gives A = 1.0, B = 1.0, C = 0.25.
C2_FusionScores ==
    \A r \in workers : Fused(r) =>
        /\ \A d \in Docs :
            IF d \in Candidates(r)
            THEN Cardinality(Entries(r, d)) = 1 /\ ScoreOf(r, d) = ExpectedScore(r, d)
            ELSE Entries(r, d) = {}
        /\ \A A, B, C \in Docs :
            (SemanticIds(r) = <<A, B>> /\ LexicalIds(r) = <<B, C>> /\ A # C) =>
                /\ ScoreOf(r, A) = Scale
                /\ ScoreOf(r, B) = Scale
                /\ 4 * ScoreOf(r, C) = Scale

C2_Witness ==
    \E r \in workers : \E A, B, C \in Docs :
        /\ pc[r] = "done" /\ "fusion" \in calls[r]
        /\ A # C
        /\ SemanticIds(r) = <<A, B>>
        /\ LexicalIds(r) = <<B, C>>

\* C3: the returned list is in descending order of combined score, and
\* documents of equal combined score are in the order of their first
\* insertion into the accumulator.
C3_OrderedByScore ==
    \A r \in workers : Answered(r) =>
        \A a, b \in 1..Len(ResultIds(r)) : a < b =>
            LET da == ResultIds(r)[a]
                db == ResultIds(r)[b]
            IN  \/ ScoreOf(r, da) > ScoreOf(r, db)
                \/ /\ ScoreOf(r, da) = ScoreOf(r, db)
                   /\ FirstInserted(r, da) < FirstInserted(r, db)

C3_Witness ==
    \E r \in workers :
        /\ Answered(r)
        /\ Len(ResultIds(r)) = 3
        /\ ScoreOf(r, ResultIds(r)[1]) > ScoreOf(r, ResultIds(r)[2])
        /\ ScoreOf(r, ResultIds(r)[2]) = ScoreOf(r, ResultIds(r)[3])
        /\ ResultIds(r)[2] \in Range(SemanticIds(r))
        /\ ResultIds(r)[3] \notin Range(SemanticIds(r))

\* C4: with top_k >= 1 an answered query returns exactly min(top_k, number of
\* accumulated documents) payloads, and no document left out has a combined
\* score greater than a returned one.
C4_TopKTruncation ==
    \A r \in workers : (Answered(r) /\ top_k[r] >= 1) =>
        /\ Len(response[r].results) = Min(top_k[r], Cardinality(Candidates(r)))
        /\ \A d \in Candidates(r) \ Range(ResultIds(r)) :
            \A e \in Range(ResultIds(r)) : ScoreOf(r, d) <= ScoreOf(r, e)

C4_Witness ==
    \E r \in workers :
        /\ Answered(r)
        /\ top_k[r] = 2
        /\ Cardinality(Candidates(r)) = 3
        /\ Len(response[r].results) = 2

\* C5: every returned payload is the payload of a document of the semantic
\* or of the lexical list of the same query, and no document id is returned
\* twice.
C5_NoFabrication ==
    \A r \in workers : Answered(r) =>
        /\ \A n \in 1..Len(response[r].results) :
            response[r].results[n] \in
                {QdrantPayload(d) : d \in Range(SemanticIds(r))}
                \cup {bm25_results[r][m].payload : m \in 1..Len(bm25_results[r])}
        /\ \A a, b \in 1..Len(ResultIds(r)) :
            a # b => ResultIds(r)[a] # ResultIds(r)[b]

C5_Witness ==
    \E r \in workers : \E d \in Docs :
        /\ Answered(r)
        /\ d \in Range(SemanticIds(r))
        /\ d \in Range(LexicalIds(r))
        /\ d \in Range(ResultIds(r))
        /\ Len(ResultIds(r)) >= 2

\* C6: a document whose BM25 score is <= 0 is never a lexical candidate, gets
\* no lexical contribution and is returned only if the semantic source
\* returned it; when no score is positive the lexical list is empty.
C6_ZeroOverlapExcluded ==
    \A r \in workers : "bm25" \in calls[r] =>
        /\ \A d \in Docs : bm25_scores[d] <= 0 =>
            /\ d \notin Range(LexicalIds(r))
            /\ Fused(r) => \A n \in Entries(r, d) :
                    /\ d \in Range(SemanticIds(r))
                    /\ ranked_results[r][n].score
                         = Scale \div (RankIn(SemanticIds(r), d) + 1)
            /\ (Answered(r) /\ d \in Range(ResultIds(r))) => d \in Range(SemanticIds(r))
        /\ (\A d \in Docs : bm25_scores[d] <= 0) => bm25_results[r] = <<>>

C6_Witness ==
    \E r \in workers : \E d, e \in Docs :
        /\ Answered(r)
        /\ bm25_scores[d] <= 0
        /\ d \in Range(TopNIndices(argsort, top_k[r]))
        /\ d \in Range(ResultIds(r))
        /\ bm25_scores[e] > 0
        /\ e \in Range(ResultIds(r))

\* C7: when the embedding call or the vector search raises, the query ends
\* with HTTP 500, no BM25 lookup and no fusion is run, no result list is
\* returned, and the thread is free for the next query.
C7_UpstreamFailure ==
    \A r \in workers : upstream[r] = "raised" =>
        /\ pc[r] = "done"
        /\ response[r].status = 500
        /\ response[r].body # "results"
        /\ response[r].results = <<>>
        /\ FrontendShows(response[r]) = "error"
        /\ calls[r] \subseteq {"embed", "vector_search"}
        /\ bm25_results[r] = <<>>
        /\ ranked_results[r] = <<>>
        /\ ENABLED Return(r)

C7_Witness ==
    \E r \in workers :
        /\ upstream[r] = "raised"
        /\ "vector_search" \in calls[r]
        /\ top_k[r] >= 1
        /\ response[r].status = 500

\* C8: after validation and both collaborators succeeded, an empty fused list
\* is answered with the no-results message (status 200, shown as information),
\* and a response that carries results holds at least one payload.
C8_EmptyResult ==
    \A r \in workers :
        /\ (pc[r] = "done" /\ "fusion" \in calls[r] /\ ranked_results[r] = <<>>) =>
            /\ response[r].status = 200
            /\ response[r].body = "message"
            /\ FrontendShows(response[r]) = "info"
        /\ response[r].body = "results" =>
            /\ Len(response[r].results) >= 1
            /\ FrontendShows(response[r]) = "success"

C8_Witness ==
    \E r \in workers :
        /\ pc[r] = "done"
        /\ "fusion" \in calls[r]
        /\ top_k[r] >= 1
        /\ ranked_results[r] = <<>>
        /\ response[r].body = "message"

\* The response to a request that runs with no other request in the service.
SearchAlone(q, k, outcome, answer) ==
    IF q = "" THEN [status |-> 400, body |-> "detail", results |-> <<>>]
    ELSE IF outcome = "raised" THEN [status |-> 500, body |-> "detail", results |-> <<>>]
    ELSE LET lexical == Bm25Results(bm25_scores, argsort, k)
             acc == FuseBm25Results(FuseVectorResults(<<>>, answer, 0), lexical, 0)
         IN  SearchResponse(FinalResults(SortedResults(acc, Len(acc)), k))

Isolated ==
    /\ \A r \in workers : pc[r] = "done" =>
        response[r] = SearchAlone(query[r], top_k[r], upstream[r], vector_search_results[r])
    /\ \A r1, r2 \in workers :
        (/\ pc[r1] = "done" /\ pc[r2] = "done"
         /\ query[r1] = query[r2] /\ top_k[r1] = top_k[r2]
         /\ upstream[r1] = upstream[r2]
         /\ vector_search_results[r1] = vector_search_results[r2])
        => response[r1] = response[r2]

\* C9: under any interleaving of two threads, every step leaves the BM25
\* index as it was at startup, and every response is the one the query gets
\* when run alone: it depends on the query text, top_k and the semantic
\* source's answer only, so a repeated query gets the same ordered list.
C9_NoCrossQueryState ==
    /\ [][bm25_scores' = bm25_scores /\ argsort' = argsort]_vars
    /\ []Isolated

C9_Witness ==
    /\ workers = {1, 2}
    /\ Answered(1) /\ Answered(2)
    /\ response[1].body = "results"
    /\ query[1] = query[2] /\ top_k[1] = top_k[2]
    /\ vector_search_results[1] = vector_search_results[2]
    /\ Len(vector_search_results[1]) >= 1
    /\ Len(bm25_results[1]) >= 2

\* C10: for top_k = k >= 1 the lexical candidate list holds at most k
\* documents in descending order of BM25 score, documents of equal score in
\* corpus insertion order.
C10_LexicalOrder ==
    \A r \in workers : ("bm25" \in calls[r] /\ top_k[r] >= 1) =>
        /\ Len(bm25_results[r]) <= top_k[r]
        /\ \A a, b \in 1..Len(bm25_results[r]) : a < b =>
            \/ bm25_results[r][a].score > bm25_results[r][b].score
            \/ /\ bm25_results[r][a].score = bm25_results[r][b].score
               /\ LexicalIds(r)[a] < LexicalIds(r)[b]

====
